---- MODULE Spec2Model ----
(***************************************************************************)
(* Model of two parts of async-graphql:                                    *)
(*   - the UploadFile validation rule                                      *)
(*     (src/validation/rules/upload_file.rs), specification SpecRule;      *)
(*   - the Tide integration's request handlers                             *)
(*     (async-graphql-tide/src/lib.rs), specification Spec.                *)
(***************************************************************************)
EXTENDS Integers, Sequences, FiniteSets, TLC

\* ------------------------------------------------------------------------
\* Bounds
\* ------------------------------------------------------------------------

\* Largest number of variable definitions of one operation.
MaxVars == 2

\* ------------------------------------------------------------------------
\* Option<T>: None is the empty sequence, Some(x) the one-element sequence.
\* ------------------------------------------------------------------------

None == <<>>

Some(x) == <<x>>

IsSome(o) == o # None

Unwrap(o) == o[1]

\* ------------------------------------------------------------------------
\* Query documents (graphql_parser::query) and the type registry
\* ------------------------------------------------------------------------

\* Named types a document may mention; "Foo" is declared by no schema.
TypeNames == {"Upload", "Int", "Foo"}

\* List / non-null wrappers around a named type, outermost first:
\* T, T!, [T], [T!]!
Wrappings == {<<>>, <<"NonNull">>, <<"List">>, <<"NonNull", "List", "NonNull">>}

\* graphql_parser::query::Type: the wrappers followed by the type's name.
TypeRefs == {w \o <<n>> : w \in Wrappings, n \in TypeNames}

\* Pos of the i-th variable definition of an operation.
VarPos(i) == [line |-> 1, column |-> 10 * i]

VariableDefinitions ==
  UNION {{[i \in 1..n |-> [var_type |-> f[i], position |-> VarPos(i)]] :
            f \in [1..n -> TypeRefs]} : n \in 0..MaxVars}

\* OperationDefinition: SelectionSet carries no variable definitions.
OperationDefinitions ==
  {[kind |-> k, variable_definitions |-> v] :
     k \in {"Query", "Mutation", "Subscription"}, v \in VariableDefinitions}
  \cup {[kind |-> "SelectionSet", variable_definitions |-> <<>>]}

\* A registered type; name() returns the name it is registered under.
TypeDef(n) == [name |-> n, kind |-> "Scalar"]

\* A registry declares a set of type names.
RegistryOf(names) == [n \in names |-> TypeDef(n)]

Registries == {RegistryOf({"Upload", "Int"}), RegistryOf({"Int"})}

\* Errors other rules may have reported before this rule runs.
OtherError == [locations |-> <<[line |-> 1, column |-> 1]>>, message |-> "other rule"]

PriorErrors == {<<>>, <<OtherError>>}

UploadMessage == "The Upload type is only allowed to be defined on a mutation"

\* Registry::basic_type_by_parsed_type: strip list / non-null wrappers, then
\* look the name up; None when the name is undeclared.
RECURSIVE basic_type_by_parsed_type(_, _)
basic_type_by_parsed_type(reg, ty) ==
  IF Head(ty) \in {"List", "NonNull"}
    THEN basic_type_by_parsed_type(reg, Tail(ty))
    ELSE IF Head(ty) \in DOMAIN reg THEN Some(reg[Head(ty)]) ELSE None

\* ValidatorContext::report_error: append one error to the context's errors.
report_error(errs, locations, message) ==
  Append(errs, [locations |-> locations, message |-> message])

\* The body of the for loop, for one variable definition.
CheckVariable(errs, reg, var) ==
  LET ty == basic_type_by_parsed_type(reg, var.var_type)
  IN IF IsSome(ty) /\ Unwrap(ty).name = "Upload"
       THEN report_error(errs, <<var.position>>, UploadMessage)
       ELSE errs

\* for var in &query.variable_definitions { ... }
RECURSIVE ForEachVariable(_, _, _)
ForEachVariable(errs, reg, defs) ==
  IF defs = <<>> THEN errs
  ELSE ForEachVariable(CheckVariable(errs, reg, Head(defs)), reg, Tail(defs))

\* Mutant: the loop stops at the first Upload variable.
RECURSIVE ForEachVariableBreak(_, _, _)
ForEachVariableBreak(errs, reg, defs) ==
  IF defs = <<>> THEN errs
  ELSE LET next == CheckVariable(errs, reg, Head(defs))
       IN IF next # errs THEN next ELSE ForEachVariableBreak(next, reg, Tail(defs))

enter_operation_definition_Break(errs, reg, op) ==
  IF op.kind = "Query"
    THEN ForEachVariableBreak(errs, reg, op.variable_definitions)
    ELSE errs

\* Mutant: the rule reports into a fresh error list.
enter_operation_definition_Reset(errs, reg, op) ==
  IF op.kind = "Query"
    THEN ForEachVariable(<<>>, reg, op.variable_definitions)
    ELSE errs

\* Mutant: only a bare named type is matched, wrappers are not resolved.
enter_operation_definition_Bare(errs, reg, op) ==
  IF op.kind = "Query"
    THEN ForEachVariable(errs, reg,
           SelectSeq(op.variable_definitions, LAMBDA v : Len(v.var_type) = 1))
    ELSE errs

\* UploadFile::enter_operation_definition: the context's errors afterwards.
enter_operation_definition(errs, reg, op) ==
  IF op.kind = "Query"
    THEN ForEachVariable(errs, reg, op.variable_definitions)
    ELSE errs

\* ------------------------------------------------------------------------
\* Result<T, E>
\* ------------------------------------------------------------------------

Ok(v) == [ok |-> TRUE, val |-> v]

Err(e) == [ok |-> FALSE, err |-> e]

\* ------------------------------------------------------------------------
\* HTTP requests, extraction options, query builders
\* ------------------------------------------------------------------------

\* Largest number of file parts of a multipart request.
MaxFiles == 1

\* Largest number of distinct calls whose results are kept for comparison.
MaxCalls == 2

\* IntoQueryBuilderOpts; a limit of None is no limit.
DefaultOpts == [max_file_count |-> None]

NoFilesOpts == [max_file_count |-> Some(0)]

OptsValues == {DefaultOpts, NoFilesOpts}

\* First value of the Content-Type header, if any.
ContentTypes ==
  {None, Some("application/json"), Some("multipart/form-data"), Some("text/plain")}

NoOperation == [kind |-> "SelectionSet", variable_definitions |-> <<>>]

\* Operations of the documents sent over HTTP: at most one variable, of type
\* Upload or Int, on a query or a mutation.
HttpOperations ==
  {op \in OperationDefinitions :
     /\ op.kind \in {"Query", "Mutation"}
     /\ Len(op.variable_definitions) <= 1
     /\ \A i \in DOMAIN op.variable_definitions :
          op.variable_definitions[i].var_type \in {<<"Upload">>, <<"Int">>}}

\* What the resolvers do with a valid query: data only, data plus errors,
\* errors only.
Resolutions == {"data", "partial", "errors"}

\* Request bodies: not JSON, JSON without a query, JSON with a query whose text
\* does not parse, JSON with a query that parses to an operation.
Bodies ==
  {[json |-> "malformed", syntax_ok |-> FALSE, operation |-> NoOperation, resolve |-> "data"],
   [json |-> "no_query", syntax_ok |-> FALSE, operation |-> NoOperation, resolve |-> "data"],
   [json |-> "query", syntax_ok |-> FALSE, operation |-> NoOperation, resolve |-> "data"]}
  \cup {[json |-> "query", syntax_ok |-> TRUE, operation |-> op, resolve |-> r] :
          op \in HttpOperations, r \in Resolutions}

Requests ==
  {[content_type |-> c, body |-> b, num_files |-> f] :
     c \in ContentTypes, b \in Bodies, f \in 0..MaxFiles}

\* Only a multipart request carries file parts.
WellFormedRequests ==
  {r \in Requests : r.num_files > 0 => r.content_type = Some("multipart/form-data")}

\* The caller's query_builder_configuration closures.
Hooks == {"identity", "data"}

QueryBuilder(body, num_files) ==
  [query_source |-> body, num_files |-> num_files, ctx_data |-> <<>>]

\* query_builder_configuration(query_builder)
ApplyHook(h, builder) ==
  IF h = "data" THEN [builder EXCEPT !.ctx_data = Append(@, "data")] ELSE builder

\* self.header(&headers::CONTENT_TYPE).and_then(|values| values.first()...)
content_type_of(req) == req.content_type

ExceedsLimits(req, o) ==
  IsSome(o.max_file_count) /\ req.num_files > Unwrap(o.max_file_count)

\* The JSON shape shared by the JSON and the multipart case.
ParseJsonBody(req) ==
  IF req.body.json = "malformed" THEN Err("MalformedBody")
  ELSE IF req.body.json = "no_query" THEN Err("MissingQuery")
  ELSE Ok(QueryBuilder(req.body, req.num_files))

\* IntoQueryBuilder::into_query_builder_opts for (content_type, request).
into_query_builder_opts(ct, req, o) ==
  IF ct = Some("multipart/form-data")
    THEN IF ExceedsLimits(req, o) THEN Err("LimitExceeded") ELSE ParseJsonBody(req)
  ELSE IF ct = None \/ ct = Some("application/json") THEN ParseJsonBody(req)
  ELSE Err("UnsupportedContentType")

SyntaxError == [locations |-> <<[line |-> 1, column |-> 1]>>, message |-> "syntax error"]

ResolverError == [locations |-> <<[line |-> 1, column |-> 3]>>, message |-> "resolver error"]

\* The execution engine's outcome for a validated query.
Resolve(r) ==
  [source |-> "engine",
   data |-> IF r = "errors" THEN None ELSE Some("value"),
   errors |-> IF r = "data" THEN <<>> ELSE <<ResolverError>>]

\* The validation pass of execute, over the rules of this model.
Validate(reg, op) == enter_operation_definition(<<>>, reg, op)

\* QueryBuilder::execute: parse, validate, run.
execute(builder, reg) ==
  LET src == builder.query_source
  IN IF ~src.syntax_ok
       THEN [source |-> "parse", data |-> None, errors |-> <<SyntaxError>>]
     ELSE IF Validate(reg, src.operation) # <<>>
       THEN [source |-> "validation", data |-> None,
             errors |-> Validate(reg, src.operation)]
     ELSE Resolve(src.resolve)

\* Serialize for GQLResponse: the keys of the JSON body and their values.
\* Serializing a response does not fail, so body_json always returns Ok.
GQLResponse(qr) ==
  LET keys == (IF IsSome(qr.data) THEN {"data"} ELSE {})
              \cup (IF qr.errors # <<>> THEN {"errors"} ELSE {})
  IN [k \in keys |-> IF k = "data" THEN <<Unwrap(qr.data)>> ELSE qr.errors]

StatusCode_Ok == 200

StatusCode_BadRequest == 400

\* .status(StatusCode::BadRequest)? on an Err: the handler's early return.
ErrorResponse(e) == [kind |-> "Err", status |-> StatusCode_BadRequest, error |-> e]

\* Response::new(StatusCode::Ok).body_json(&gql_response)
response_new_body_json(status, body) == [kind |-> "Ok", status |-> status, body |-> body]

\* ------------------------------------------------------------------------
\* State
\* ------------------------------------------------------------------------

VARIABLES
  registry,              \* the schema's type registry (ctx.registry)
  operation_definition,  \* the operation the visitor enters
  errors,                \* ctx.errors
  visited,               \* the rule's hook has returned
  request,               \* the HTTP request being served
  hook,                  \* the caller's query_builder_configuration
  pc,                    \* the function the call is in, or its step
  entry,                 \* the entry point the endpoint called, and its opts argument
  opts,                  \* the opts argument of the current function, if any
  extracted,             \* what into_query_builder_opts returned, if called
  query_builder,         \* the local query_builder, None before and after use
  query_response,        \* what execute returned, if called
  response,              \* the handler's result, if it has returned
  trace,                 \* the pipeline steps taken by the current call
  extractor_calls,       \* the opts of each call of into_query_builder_opts
  hook_calls,            \* the argument and the result of each call of the hook
  execute_calls,         \* the builder of each call of execute
  results                \* what earlier calls did and returned

ruleVars == <<operation_definition, errors, visited>>

callVars == <<pc, entry, opts, extracted, query_builder, query_response, response,
              trace, extractor_calls, hook_calls, execute_calls>>

httpVars == <<request, hook, results>>

vars == <<registry, ruleVars, callVars, httpVars>>

NoEntry == [fn |-> "none", opts |-> None]

\* No call in progress.
CallReset ==
  /\ pc = "idle"
  /\ entry = NoEntry
  /\ opts = None
  /\ extracted = None
  /\ query_builder = None
  /\ query_response = None
  /\ response = None
  /\ trace = <<>>
  /\ extractor_calls = <<>>
  /\ hook_calls = <<>>
  /\ execute_calls = <<>>

\* ------------------------------------------------------------------------
\* The validation rule
\* ------------------------------------------------------------------------

InitRule ==
  /\ registry \in Registries
  /\ operation_definition \in OperationDefinitions
  /\ errors \in PriorErrors
  /\ visited = FALSE
  /\ request = [content_type |-> None, body |-> CHOOSE b \in Bodies : b.json = "no_query",
                num_files |-> 0]
  /\ hook = "identity"
  /\ results = {}
  /\ CallReset

\* The visitor enters the operation definition and the rule's hook runs.
EnterOperationDefinition ==
  /\ ~visited
  /\ errors' = enter_operation_definition(errors, registry, operation_definition)
  /\ visited' = TRUE
  /\ UNCHANGED <<registry, operation_definition, callVars, httpVars>>

NextRule == EnterOperationDefinition

SpecRule == InitRule /\ [][NextRule]_vars

\* ------------------------------------------------------------------------
\* The request handlers
\* ------------------------------------------------------------------------

EntryPoints == {"graphql", "graphql_opts", "RequestExt::graphql", "RequestExt::graphql_opts"}

\* The entry points that take an opts argument.
OptsEntryPoints == {"graphql_opts", "RequestExt::graphql_opts"}

PipelineSteps == <<"extract", "configure", "execute", "respond">>

Init ==
  /\ registry \in Registries
  /\ operation_definition = NoOperation
  /\ errors = <<>>
  /\ visited = FALSE
  /\ request \in WellFormedRequests
  /\ hook \in Hooks
  /\ results = {}
  /\ CallReset

\* The endpoint closure calls one of the entry points with the request, the
\* schema and the hook (and opts, where the entry point takes them).
Call(e, o) ==
  /\ pc = "idle"
  /\ Cardinality(results) < MaxCalls
  /\ pc' = e
  /\ entry' = [fn |-> e, opts |-> o]
  /\ opts' = o
  /\ UNCHANGED <<registry, ruleVars, httpVars, extracted, query_builder, query_response,
                 response, trace, extractor_calls, hook_calls, execute_calls>>

CallEntryPoint ==
  \E e \in EntryPoints :
    \E o \in (IF e \in OptsEntryPoints THEN {Some(x) : x \in OptsValues} ELSE {None}) :
      Call(e, o)

\* pub async fn graphql: graphql_opts(req, schema, hook, Default::default())
graphql ==
  /\ pc = "graphql"
  /\ pc' = "graphql_opts"
  /\ opts' = Some(DefaultOpts)
  /\ UNCHANGED <<registry, ruleVars, httpVars, entry, extracted, query_builder,
                 query_response, response, trace, extractor_calls, hook_calls,
                 execute_calls>>

\* Mutant: the free function forwards default options instead of its own.
graphql_opts_DropOpts ==
  /\ pc = "graphql_opts"
  /\ pc' = "RequestExt::graphql_opts"
  /\ opts' = Some(DefaultOpts)
  /\ UNCHANGED <<registry, ruleVars, httpVars, entry, extracted, query_builder,
                 query_response, response, trace, extractor_calls, hook_calls,
                 execute_calls>>

\* pub async fn graphql_opts: req.graphql_opts(schema, hook, opts)
graphql_opts ==
  /\ pc = "graphql_opts"
  /\ pc' = "RequestExt::graphql_opts"
  /\ opts' = opts
  /\ UNCHANGED <<registry, ruleVars, httpVars, entry, extracted, query_builder,
                 query_response, response, trace, extractor_calls, hook_calls,
                 execute_calls>>

\* RequestExt::graphql: self.graphql_opts(schema, hook, Default::default())
RequestExt_graphql ==
  /\ pc = "RequestExt::graphql"
  /\ pc' = "RequestExt::graphql_opts"
  /\ opts' = Some(DefaultOpts)
  /\ UNCHANGED <<registry, ruleVars, httpVars, entry, extracted, query_builder,
                 query_response, response, trace, extractor_calls, hook_calls,
                 execute_calls>>

\* Mutant: an extraction failure is swallowed and a builder made anyway.
Extract_IgnoreError ==
  /\ pc = "RequestExt::graphql_opts"
  /\ LET content_type == content_type_of(request)
         res == into_query_builder_opts(content_type, request, Unwrap(opts))
     IN /\ extracted' = Some(res)
        /\ query_builder' = Some(IF res.ok THEN res.val
                                 ELSE QueryBuilder(request.body, request.num_files))
  /\ pc' = "configure"
  /\ extractor_calls' = Append(extractor_calls, Unwrap(opts))
  /\ trace' = Append(trace, "extract")
  /\ UNCHANGED <<registry, ruleVars, httpVars, entry, opts, query_response, response,
                 hook_calls, execute_calls>>

\* Mutant: the builder goes to execute without passing through the hook.
Extract_SkipHook ==
  /\ pc = "RequestExt::graphql_opts"
  /\ LET content_type == content_type_of(request)
         res == into_query_builder_opts(content_type, request, Unwrap(opts))
     IN /\ extracted' = Some(res)
        /\ IF res.ok
             THEN /\ query_builder' = Some(res.val)
                  /\ response' = response
                  /\ pc' = "execute"
             ELSE /\ query_builder' = query_builder
                  /\ response' = Some(ErrorResponse(res.err))
                  /\ pc' = "done"
  /\ extractor_calls' = Append(extractor_calls, Unwrap(opts))
  /\ trace' = Append(trace, "extract")
  /\ UNCHANGED <<registry, ruleVars, httpVars, entry, opts, query_response, hook_calls,
                 execute_calls>>

\* RequestExt::graphql_opts, first statements: read the content type, run the
\* extractor, return 400 on its failure, otherwise bind query_builder.
Extract ==
  /\ pc = "RequestExt::graphql_opts"
  /\ LET content_type == content_type_of(request)
         res == into_query_builder_opts(content_type, request, Unwrap(opts))
     IN /\ extracted' = Some(res)
        /\ IF res.ok
             THEN /\ query_builder' = Some(res.val)
                  /\ response' = response
                  /\ pc' = "configure"
             ELSE /\ query_builder' = query_builder
                  /\ response' = Some(ErrorResponse(res.err))
                  /\ pc' = "done"
  /\ extractor_calls' = Append(extractor_calls, Unwrap(opts))
  /\ trace' = Append(trace, "extract")
  /\ UNCHANGED <<registry, ruleVars, httpVars, entry, opts, query_response, hook_calls,
                 execute_calls>>

\* Mutant: the hook is called and its result is dropped.
Configure_DropResult ==
  /\ pc = "configure"
  /\ LET arg == Unwrap(query_builder)
         ret == ApplyHook(hook, arg)
     IN hook_calls' = Append(hook_calls, [arg |-> arg, ret |-> ret])
  /\ trace' = Append(trace, "configure")
  /\ pc' = "execute"
  /\ UNCHANGED <<registry, ruleVars, httpVars, entry, opts, extracted, query_builder,
                 query_response, response, extractor_calls, execute_calls>>

\* query_builder = query_builder_configuration(query_builder);
Configure ==
  /\ pc = "configure"
  /\ LET arg == Unwrap(query_builder)
         ret == ApplyHook(hook, arg)
     IN /\ hook_calls' = Append(hook_calls, [arg |-> arg, ret |-> ret])
        /\ query_builder' = Some(ret)
  /\ trace' = Append(trace, "configure")
  /\ pc' = "execute"
  /\ UNCHANGED <<registry, ruleVars, httpVars, entry, opts, extracted, query_response,
                 response, extractor_calls, execute_calls>>

\* let query_response = query_builder.execute(&schema).await;
\* execute takes the builder by value: the local is moved out of. Its
\* validation pass enters the document's operation with a fresh context.
Execute ==
  /\ pc = "execute"
  /\ LET builder == Unwrap(query_builder)
     IN /\ execute_calls' = Append(execute_calls, builder)
        /\ query_response' = Some(execute(builder, registry))
        /\ IF builder.query_source.syntax_ok
             THEN /\ operation_definition' = builder.query_source.operation
                  /\ errors' = Validate(registry, builder.query_source.operation)
                  /\ visited' = TRUE
             ELSE UNCHANGED ruleVars
  /\ query_builder' = None
  /\ trace' = Append(trace, "execute")
  /\ pc' = "respond"
  /\ UNCHANGED <<registry, httpVars, entry, opts, extracted, response, extractor_calls,
                 hook_calls>>

\* Mutant: a parse or validation failure is answered with 400.
Respond_BadRequestOnFailure ==
  /\ pc = "respond"
  /\ response' = Some(response_new_body_json(
                        IF Unwrap(query_response).source = "engine"
                          THEN StatusCode_Ok ELSE StatusCode_BadRequest,
                        GQLResponse(Unwrap(query_response))))
  /\ trace' = Append(trace, "respond")
  /\ pc' = "done"
  /\ UNCHANGED <<registry, ruleVars, httpVars, entry, opts, extracted, query_builder,
                 query_response, extractor_calls, hook_calls, execute_calls>>

\* Mutant: an outcome that carries errors is answered with 400.
Respond_BadRequestOnErrors ==
  /\ pc = "respond"
  /\ response' = Some(response_new_body_json(
                        IF Unwrap(query_response).errors = <<>>
                          THEN StatusCode_Ok ELSE StatusCode_BadRequest,
                        GQLResponse(Unwrap(query_response))))
  /\ trace' = Append(trace, "respond")
  /\ pc' = "done"
  /\ UNCHANGED <<registry, ruleVars, httpVars, entry, opts, extracted, query_builder,
                 query_response, extractor_calls, hook_calls, execute_calls>>

\* let gql_response = GQLResponse(query_response);
\* let resp = Response::new(StatusCode::Ok).body_json(&gql_response)?;
\* Ok(resp)
Respond ==
  /\ pc = "respond"
  /\ response' = Some(response_new_body_json(StatusCode_Ok,
                                             GQLResponse(Unwrap(query_response))))
  /\ trace' = Append(trace, "respond")
  /\ pc' = "done"
  /\ UNCHANGED <<registry, ruleVars, httpVars, entry, opts, extracted, query_builder,
                 query_response, extractor_calls, hook_calls, execute_calls>>

\* What a finished call did and returned.
CallRecord ==
  [entry |-> entry, opts |-> Unwrap(extractor_calls), extracted |-> Unwrap(extracted),
   trace |-> trace, hook_calls |-> hook_calls, execute_calls |-> execute_calls,
   response |-> Unwrap(response)]

\* The entry point returns to the endpoint; the call's locals and the
\* request's validator context are dropped.
Return ==
  /\ pc = "done"
  /\ results' = results \cup {CallRecord}
  /\ pc' = "idle"
  /\ entry' = NoEntry
  /\ opts' = None
  /\ extracted' = None
  /\ query_builder' = None
  /\ query_response' = None
  /\ response' = None
  /\ trace' = <<>>
  /\ extractor_calls' = <<>>
  /\ hook_calls' = <<>>
  /\ execute_calls' = <<>>
  /\ operation_definition' = NoOperation
  /\ errors' = <<>>
  /\ visited' = FALSE
  /\ UNCHANGED <<registry, request, hook>>

Next ==
  \/ CallEntryPoint
  \/ graphql
  \/ graphql_opts
  \/ RequestExt_graphql
  \/ Extract
  \/ Configure
  \/ Execute
  \/ Respond
  \/ Return

Spec == Init /\ [][Next]_vars

\* ------------------------------------------------------------------------
\* Vocabulary of the properties
\* ------------------------------------------------------------------------

Done == pc = "done"

ExtractionFailed == IsSome(extracted) /\ ~Unwrap(extracted).ok

ExtractionSucceeded == IsSome(extracted) /\ Unwrap(extracted).ok

\* execute returned a parse or a validation failure.
PipelineFailure ==
  IsSome(query_response) /\ Unwrap(query_response).source \in {"parse", "validation"}

\* execute returned what the execution engine produced.
EngineOutcome == IsSome(query_response) /\ Unwrap(query_response).source = "engine"

Status(r) == Unwrap(r).status

\* The response is a JSON body with exactly these keys.
BodyKeys(r, keys) == Unwrap(r).kind = "Ok" /\ DOMAIN Unwrap(r).body = keys

IsPrefix(s, t) == Len(s) <= Len(t) /\ SubSeq(t, 1, Len(s)) = s

\* The name a type reference ends in, under all its wrappers.
NamedType(ty) == ty[Len(ty)]

\* The variable definition's type resolves, in this registry, to Upload.
IsUploadVariable(var) ==
  NamedType(var.var_type) = "Upload" /\ "Upload" \in DOMAIN registry

UploadVariables ==
  {i \in DOMAIN operation_definition.variable_definitions :
     IsUploadVariable(operation_definition.variable_definitions[i])}

UploadErrorAt(pos) == [locations |-> <<pos>>, message |-> UploadMessage]

\* The errors a step of the rule added to the context.
Appended == SubSeq(errors', Len(errors) + 1, Len(errors'))

\* The errors expected of a query: one per Upload variable, in declaration order.
ExpectedUploadErrors ==
  LET hits == SelectSeq(operation_definition.variable_definitions, IsUploadVariable)
  IN [i \in 1..Len(hits) |-> UploadErrorAt(hits[i].position)]

\* ------------------------------------------------------------------------
\* Properties of the request handlers (specification Spec)
\* ------------------------------------------------------------------------

C2_ExtractionFailureIsBadRequest ==
  (Done /\ ExtractionFailed) =>
    /\ Status(response) = StatusCode_BadRequest
    /\ Unwrap(response).kind = "Err"
    /\ query_builder = None
    /\ query_response = None
    /\ hook_calls = <<>>
    /\ execute_calls = <<>>
    /\ trace = <<"extract">>

C2_Witness ==
  /\ Done
  /\ extracted = Some(Err("LimitExceeded"))
  /\ Status(response) = StatusCode_BadRequest
  /\ hook_calls = <<>>

\* C3: when extraction succeeded and the outcome is the execution engine's
\* (data, data with resolver errors, or resolver errors alone), the response
\* has status 200 and its body is the outcome: data present exactly when the
\* outcome has data, errors exactly when it has errors.
C3_EngineOutcomeIsOk ==
  (Done /\ ExtractionSucceeded /\ EngineOutcome) =>
    LET out == Unwrap(query_response)
        r == Unwrap(response)
    IN /\ r.kind = "Ok"
       /\ r.status = StatusCode_Ok
       /\ ("data" \in DOMAIN r.body) <=> IsSome(out.data)
       /\ ("errors" \in DOMAIN r.body) <=> (out.errors # <<>>)
       /\ "data" \in DOMAIN r.body => r.body["data"] = <<Unwrap(out.data)>>
       /\ "errors" \in DOMAIN r.body => r.body["errors"] = out.errors

\* Partial success: data and a resolver error, answered 200.
C3_Witness ==
  /\ Done
  /\ EngineOutcome
  /\ IsSome(Unwrap(query_response).data)
  /\ Unwrap(query_response).errors = <<ResolverError>>
  /\ Status(response) = StatusCode_Ok

\* C6: execute is called at most once per request, on the builder the hook
\* returned, and once execute has taken the builder the handler holds none.
C6_BuilderSingleUse ==
  /\ Len(execute_calls) <= 1
  /\ execute_calls # <<>> =>
       /\ Len(hook_calls) = 1
       /\ execute_calls[1] = hook_calls[1].ret
       /\ query_builder = None

\* The hook changed the builder and the changed builder was executed.
C6_Witness ==
  /\ Done
  /\ Len(execute_calls) = 1
  /\ Len(hook_calls) = 1
  /\ hook_calls[1].ret # hook_calls[1].arg

\* C7: the steps of a call are a prefix of extract, configure, execute,
\* respond; the hook is called once when extraction succeeds and never
\* otherwise, after the extractor returned and before execute; the response
\* is built after execute returned.
C7_StepOrder ==
  /\ IsPrefix(trace, PipelineSteps)
  /\ Len(extractor_calls) = (IF Len(trace) >= 1 THEN 1 ELSE 0)
  /\ Len(hook_calls) = (IF Len(trace) >= 2 THEN 1 ELSE 0)
  /\ Len(execute_calls) = (IF Len(trace) >= 3 THEN 1 ELSE 0)
  /\ hook_calls # <<>> => ExtractionSucceeded /\ hook_calls[1].arg = Unwrap(extracted).val
  /\ (IsSome(response) /\ Unwrap(response).kind = "Ok") =>
       IsSome(query_response) /\ trace = PipelineSteps
  /\ (Done /\ ExtractionSucceeded) => trace = PipelineSteps /\ Len(hook_calls) = 1

C7_Witness ==
  /\ Done
  /\ trace = PipelineSteps
  /\ Len(hook_calls) = 1
  /\ IsSome(response)

\* Two calls took the same steps with the same values and returned the same.
SameOutcome(a, b) ==
  /\ a.trace = b.trace
  /\ a.response = b.response
  /\ a.extracted = b.extracted
  /\ a.hook_calls = b.hook_calls
  /\ a.execute_calls = b.execute_calls

\* C10: graphql and RequestExt::graphql hand the extractor the default
\* options, the two graphql_opts hand it their opts argument unchanged, and
\* every call made with the default options takes the same steps and returns
\* the same response as RequestExt::graphql_opts with the default options.
C10_EntryPointsAgree ==
  \A a \in results :
    /\ a.entry.fn \in OptsEntryPoints => a.opts = Unwrap(a.entry.opts)
    /\ a.entry.fn \notin OptsEntryPoints => a.opts = DefaultOpts
    /\ \A b \in results :
         (/\ b.entry = [fn |-> "RequestExt::graphql_opts", opts |-> Some(DefaultOpts)]
          /\ a.entry.opts \in {None, Some(DefaultOpts)})
           => SameOutcome(a, b)

\* graphql and RequestExt::graphql_opts with default options both served a
\* multipart request with a file part, and a graphql_opts call was made with
\* other options.
C10_Witness ==
  /\ request.num_files > 0
  /\ request.body.json = "query"
  /\ \E a, b \in results :
       /\ a.entry.fn = "graphql"
       /\ b.entry = [fn |-> "RequestExt::graphql_opts", opts |-> Some(DefaultOpts)]
       /\ a.trace = PipelineSteps

\* ------------------------------------------------------------------------
\* Properties of the UploadFile rule (specification SpecRule)
\* ------------------------------------------------------------------------

\* C4: entering a query that declares Upload variables appends, for each of
\* them, exactly one error positioned at its declaration (so exactly one
\* error when there is one such variable); entering the same operation typed
\* as a mutation appends nothing.
C4_QueryUploadReported ==
  [][/\ operation_definition.kind = "Query" =>
          /\ \A i \in UploadVariables :
               Cardinality({j \in DOMAIN Appended :
                              Appended[j].locations = <<VarPos(i)>>}) = 1
          /\ Cardinality(UploadVariables) = 1 => Len(Appended) = 1
     /\ operation_definition.kind = "Mutation" => errors' = errors]_vars

\* A query with two Upload variables got an error at each.
C4_Witness ==
  /\ visited
  /\ operation_definition.kind = "Query"
  /\ Cardinality(UploadVariables) = 2
  /\ \A i \in UploadVariables : \E j \in DOMAIN errors : errors[j] = UploadErrorAt(VarPos(i))

\* C5: an operation of any kind that declares an Upload variable gets an
\* error from the rule if and only if it is not a mutation.
C5_OnlyMutationsMayUpload ==
  [][UploadVariables # {} =>
       ((errors' # errors) <=> operation_definition.kind # "Mutation")]_vars

\* C8: entering a query appends exactly the errors of its Upload variables:
\* one per variable whose type resolves through its wrappers to Upload, in
\* declaration order, at the variable's position, with the fixed message;
\* variables of undeclared or other types add nothing.
C8_OneErrorPerUploadVariable ==
  [][operation_definition.kind = "Query" =>
       errors' = errors \o ExpectedUploadErrors]_vars

\* [Upload!]! followed by a variable of an undeclared type and nothing else
\* reported: one error, at the first variable.
C8_Witness ==
  /\ visited
  /\ operation_definition.kind = "Query"
  /\ Len(operation_definition.variable_definitions) = 2
  /\ operation_definition.variable_definitions[1].var_type
       = <<"NonNull", "List", "NonNull", "Upload">>
  /\ operation_definition.variable_definitions[2].var_type = <<"Foo">>
  /\ errors = <<UploadErrorAt(VarPos(1))>>

\* C9: a step of the rule leaves the errors reported before it as a prefix of
\* the errors after it, and leaves the registry as it was.
C9_AppendOnly ==
  [][IsPrefix(errors, errors') /\ registry' = registry]_vars

\* An error of another rule is still first after the rule added its own.
C9_Witness ==
  /\ visited
  /\ Len(errors) = 3
  /\ errors[1] = OtherError
  /\ errors[2].message = UploadMessage

====
